---- MODULE Spec2Model ----
(***************************************************************************)
(* Model of backend/server.py: the REST handlers (rooms, pins, votes,      *)
(* users), the Socket.IO event handlers, and the two stores they share:    *)
(* the MongoDB collections and the Socket.IO room registry.                *)
(*                                                                         *)
(* Every handler is a coroutine: the code between two awaits runs          *)
(* atomically on the event loop, and another handler may run at each       *)
(* await.  One action of the model is one such await-delimited step.       *)
(***************************************************************************)
EXTENDS Integers, Sequences, FiniteSets, TLC

\* ------------------------------------------------------------ universes
Users == {"u1", "u2"}
RoomNames == {"r1", "r2"}
Sids == {"s1", "s2"}
\* the sids the Socket.IO server generates, in the order of the connections
SidOrder == <<"s1", "s2">>
Tasks == {"t1", "t2"}
TaskOrder == <<"t1", "t2">>
\* display names a client sends with join_room and leave_room
UserNames == {"Anonymous"}
\* payloads a client sends with pin_created, pin_updated and pin_deleted
ClientData == {[room_id |-> r, id |-> "p9"] : r \in {"r1", "r2"}}
\* uuid4 values handed out by the default factories, in the order of use
RoomUuids == <<"r1", "r2">>
PinUuids == <<"p1", "p2">>
UserUuids == <<"x1">>
PinNames == {"p1", "p2"}

\* number of handler invocations a behaviour may start
MaxCalls == 4
\* number of calls a watched scenario may start
MaxWatched == 3

VARIABLES
    db_rooms,   \* db.rooms: documents in insertion order
    db_pins,    \* db.pins: documents in insertion order
    db_users,   \* db.users: documents in insertion order
    sio_rooms,  \* Socket.IO registry: room name -> sids entered
    connected,  \* sids with a live connection
    closed,     \* sids whose connection has ended
    log,        \* every sio.emit since the initial state, with the sids it reached
    task,       \* the handler invocation each event-loop task is running
    resp,       \* the last HTTP response each task returned
    calls,      \* handler invocations started since the initial state
    \* history variables: no handler reads them
    intent,     \* sid -> the rooms its client asked to join and has not left
    snap,       \* db.pins when the vote scenario began
    called,     \* the calls of a scenario, in the order they began
    returned    \* what those calls returned, in the order they returned

db == <<db_rooms, db_pins, db_users>>
sio == <<sio_rooms, connected, closed>>
votes_history == <<snap, called, returned>>
history == <<intent, snap, called, returned>>
vars == <<db_rooms, db_pins, db_users, sio_rooms, connected, closed, log, task, resp,
          calls, intent, snap, called, returned>>

\* ------------------------------------------------------------ helpers
Range(s) == {s[i] : i \in 1..Len(s)}

NoDup(s) == \A i, j \in 1..Len(s) : i # j => s[i] # s[j]

\* collection.find_one({"id": id}): <<>> for None, else <<document>>
FindOne(coll, id) ==
    LET hits == SelectSeq(coll, LAMBDA d : d.id = id)
    IN  IF hits = <<>> THEN <<>> ELSE <<Head(hits)>>

\* the document update_one({"id": id}, ...) patches: the first match, 0 if none
Matched(coll, id) ==
    IF \E i \in 1..Len(coll) : coll[i].id = id
    THEN CHOOSE i \in 1..Len(coll) :
            /\ coll[i].id = id
            /\ \A j \in 1..(i - 1) : coll[j].id # id
    ELSE 0

\* $push: append, whether or not the value is already there
Push(s, x) == Append(s, x)

\* $pull: remove every occurrence
Pull(s, x) == SelectSeq(s, LAMBDA y : y # x)

\* update_one({"id": id}, {"$push": {"voted_by": user}, "$inc": {"votes": 1}})
PushVote(coll, id, user) ==
    LET i == Matched(coll, id)
    IN  IF i = 0 THEN coll
        ELSE [coll EXCEPT ![i] = [@ EXCEPT !.voted_by = Push(@, user),
                                           !.votes = @ + 1]]

\* PullVote with the "$inc" left out of the patch
PullVote_no_inc(coll, id, user) ==
    LET i == Matched(coll, id)
    IN  IF i = 0 THEN coll
        ELSE [coll EXCEPT ![i] = [@ EXCEPT !.voted_by = Pull(@, user)]]

\* update_one({"id": id}, {"$pull": {"voted_by": user}, "$inc": {"votes": -1}})
PullVote(coll, id, user) ==
    LET i == Matched(coll, id)
    IN  IF i = 0 THEN coll
        ELSE [coll EXCEPT ![i] = [@ EXCEPT !.voted_by = Pull(@, user),
                                           !.votes = @ - 1]]

\* update_one({"id": id}, {"$push": {"members": user}})
PushMember(coll, id, user) ==
    LET i == Matched(coll, id)
    IN  IF i = 0 THEN coll
        ELSE [coll EXCEPT ![i] = [@ EXCEPT !.members = Push(@, user)]]

\* GeoStore.find_pins_in_room: db.pins.find({"room_id": room_id}).to_list(None)
find_pins_in_room(room) == SelectSeq(db_pins, LAMBDA d : d.room_id = room)

\* calculate_centroid without the "$match" stage: every pin is grouped
calculate_centroid_no_match(room) ==
    LET count == Len(db_pins)
    IN  IF count > 0 THEN <<[type |-> "centroid"]>> ELSE <<>>

\* GeoStore.calculate_centroid: None (<<>>) unless the $group stage saw a pin
calculate_centroid(room) ==
    LET count == Len(find_pins_in_room(room))
    IN  IF count > 0 THEN <<[type |-> "centroid"]>> ELSE <<>>

\* ------------------------------------------------------------ models
\* NewRoom without the line that makes the creator the first member
NewRoom_no_creator(id, creator) ==
    [id |-> id, created_by |-> creator, members |-> <<>>, is_active |-> TRUE]

\* Room(**room_data.dict()) with members = [created_by]
NewRoom(id, creator) ==
    [id |-> id, created_by |-> creator, members |-> <<creator>>, is_active |-> TRUE]

\* Pin(room_id, ..., created_by) with the defaults votes = 0, voted_by = []
NewPin(id, room, creator) ==
    [id |-> id, room_id |-> room, created_by |-> creator,
     votes |-> 0, voted_by |-> <<>>]

\* User(**user_data.dict()) with the default current_room = None
NewUser(id, name) == [id |-> id, name |-> name, current_room |-> "None"]

\* ------------------------------------------------------------ tasks
Idle == [pc |-> "idle", sid |-> "-", room |-> "-", pin |-> "-", user |-> "-",
         action |-> "-", docs |-> <<>>]

NoResp == [op |-> "-", status |-> 0, body |-> <<>>]

Ok(op, body) == [op |-> op, status |-> 200, body |-> body]

\* raise HTTPException(status_code=404, detail=...)
NotFound(op, detail) == [op |-> op, status |-> 404, body |-> <<[detail |-> detail]>>]

\* a request is served by the first free task; no more than MaxCalls are started
CanStart(t) ==
    /\ task[t].pc = "idle"
    /\ \A i \in 1..Len(TaskOrder) :
          TaskOrder[i] = t => \A j \in 1..(i - 1) : task[TaskOrder[j]].pc # "idle"
    /\ calls < MaxCalls

\* ------------------------------------------------------------ Socket.IO
\* Emit with the newest emit delivered ahead of the earlier ones
Emit_front(event, room, data) ==
    <<[event |-> event, room |-> room, data |-> data, to |-> sio_rooms[room]]>> \o log

\* sio.emit(event, data, room=room): delivered to the sids in the room now
Emit(event, room, data) ==
    Append(log, [event |-> event, room |-> room, data |-> data,
                 to |-> sio_rooms[room]])

\* sio.emit(event, data, room=sid): a connected sid is the only member of the
\* room that bears its name
EmitToSid(event, sid, data) ==
    Append(log, [event |-> event, room |-> sid, data |-> data,
                 to |-> {sid} \cap connected])

Init ==
    /\ db_rooms = <<>>
    /\ db_pins = <<>>
    /\ db_users = <<>>
    /\ sio_rooms = [r \in RoomNames |-> {}]
    /\ connected = {}
    /\ closed = {}
    /\ log = <<>>
    /\ task = [t \in Tasks |-> Idle]
    /\ resp = [t \in Tasks |-> NoResp]
    /\ calls = 0
    /\ intent = [s \in Sids |-> {}]
    /\ snap = <<>>
    /\ called = <<>>
    /\ returned = <<>>

\* ------------------------------------------------------------ rooms (REST)
\* POST /api/rooms
create_room(t, creator) ==
    /\ CanStart(t)
    /\ Len(db_rooms) < Len(RoomUuids)
    /\ LET room == NewRoom(RoomUuids[Len(db_rooms) + 1], creator)
       IN  /\ db_rooms' = Append(db_rooms, room)
           /\ resp' = [resp EXCEPT ![t] = Ok("create_room", <<room>>)]
    /\ calls' = calls + 1
    /\ UNCHANGED <<db_pins, db_users, sio, log, task>>

\* join_room_api without its membership test: every join pushes
join_room_api_always_push(t, room_id, user_id) ==
    /\ CanStart(t)
    /\ calls' = calls + 1
    /\ IF FindOne(db_rooms, room_id) = <<>>
       THEN /\ resp' = [resp EXCEPT ![t] = NotFound("join_room_api", "Room not found")]
            /\ UNCHANGED task
       ELSE /\ task' = [task EXCEPT ![t] =
                          [Idle EXCEPT !.pc = "join_update", !.room = room_id,
                                       !.user = user_id]]
            /\ resp' = [resp EXCEPT ![t] = NoResp]
    /\ UNCHANGED <<db, sio, log>>

\* join_room_api without its 404: a missing room is treated as one to join
join_room_api_no_404(t, room_id, user_id) ==
    /\ CanStart(t)
    /\ calls' = calls + 1
    /\ LET room == FindOne(db_rooms, room_id)
       IN  IF room # <<>> /\ user_id \in Range(room[1].members)
           THEN /\ resp' = [resp EXCEPT ![t] =
                              Ok("join_room_api", <<[message |-> "Successfully joined room"]>>)]
                /\ UNCHANGED task
           ELSE /\ task' = [task EXCEPT ![t] =
                              [Idle EXCEPT !.pc = "join_update", !.room = room_id,
                                           !.user = user_id]]
                /\ resp' = [resp EXCEPT ![t] = NoResp]
    /\ UNCHANGED <<db, sio, log>>

\* POST /api/rooms/{room_id}/join, up to the update: find_one, the 404, and
\* the membership test, which returns at once for a member
join_room_api(t, room_id, user_id) ==
    /\ CanStart(t)
    /\ calls' = calls + 1
    /\ LET room == FindOne(db_rooms, room_id)
       IN  IF room = <<>>
           THEN /\ resp' = [resp EXCEPT ![t] = NotFound("join_room_api", "Room not found")]
                /\ UNCHANGED task
           ELSE IF user_id \in Range(room[1].members)
           THEN /\ resp' = [resp EXCEPT ![t] =
                              Ok("join_room_api", <<[message |-> "Successfully joined room"]>>)]
                /\ UNCHANGED task
           ELSE /\ task' = [task EXCEPT ![t] =
                              [Idle EXCEPT !.pc = "join_update", !.room = room_id,
                                           !.user = user_id]]
                /\ resp' = [resp EXCEPT ![t] = NoResp]
    /\ UNCHANGED <<db, sio, log>>

\* join_room_api from its update_one to the return
join_update(t) ==
    /\ task[t].pc = "join_update"
    /\ db_rooms' = PushMember(db_rooms, task[t].room, task[t].user)
    /\ resp' = [resp EXCEPT ![t] =
                  Ok("join_room_api", <<[message |-> "Successfully joined room"]>>)]
    /\ task' = [task EXCEPT ![t] = Idle]
    /\ UNCHANGED <<db_pins, db_users, sio, log, calls>>

\* ------------------------------------------------------------ pins (REST)
\* POST /api/pins, up to the emit: build the Pin and insert it
create_pin(t, room_id, creator) ==
    /\ CanStart(t)
    /\ Len(db_pins) < Len(PinUuids)
    /\ calls' = calls + 1
    /\ LET pin == NewPin(PinUuids[Len(db_pins) + 1], room_id, creator)
       IN  /\ db_pins' = Append(db_pins, pin)
           /\ task' = [task EXCEPT ![t] =
                         [Idle EXCEPT !.pc = "create_pin_emit", !.room = pin.room_id,
                                      !.pin = pin.id, !.docs = <<pin>>]]
    /\ resp' = [resp EXCEPT ![t] = NoResp]
    /\ UNCHANGED <<db_rooms, db_users, sio, log>>

\* create_pin returning without the emit
create_pin_emit_skipped(t) ==
    /\ task[t].pc = "create_pin_emit"
    /\ resp' = [resp EXCEPT ![t] = Ok("create_pin", task[t].docs)]
    /\ task' = [task EXCEPT ![t] = Idle]
    /\ UNCHANGED <<db, sio, log, calls>>

\* create_pin emitting without room=: the emit goes to every connected sid
create_pin_emit_to_all(t) ==
    /\ task[t].pc = "create_pin_emit"
    /\ log' = Append(log, [event |-> "pin_added", room |-> task[t].room,
                           data |-> task[t].docs, to |-> connected])
    /\ resp' = [resp EXCEPT ![t] = Ok("create_pin", task[t].docs)]
    /\ task' = [task EXCEPT ![t] = Idle]
    /\ UNCHANGED <<db, sio, calls>>

\* create_pin from its emit to the return
create_pin_emit(t) ==
    /\ task[t].pc = "create_pin_emit"
    /\ log' = Emit("pin_added", task[t].room, task[t].docs)
    /\ resp' = [resp EXCEPT ![t] = Ok("create_pin", task[t].docs)]
    /\ task' = [task EXCEPT ![t] = Idle]
    /\ UNCHANGED <<db, sio, calls>>

\* GET /api/pins/room/{room_id}
get_room_pins(t, room_id) ==
    /\ CanStart(t)
    /\ calls' = calls + 1
    /\ resp' = [resp EXCEPT ![t] = Ok("get_room_pins", find_pins_in_room(room_id))]
    /\ UNCHANGED <<db, sio, log, task>>

\* vote_pin without its 404: a missing pin is treated as one not yet voted on
vote_pin_no_404(t, pin_id, user_id) ==
    /\ CanStart(t)
    /\ calls' = calls + 1
    /\ LET pin == FindOne(db_pins, pin_id)
       IN  task' = [task EXCEPT ![t] =
                      [Idle EXCEPT !.pc = "vote_update", !.pin = pin_id,
                                   !.user = user_id,
                                   !.room = IF pin = <<>> THEN "r1" ELSE pin[1].room_id,
                                   !.docs = pin,
                                   !.action = IF pin # <<>> /\ user_id \in Range(pin[1].voted_by)
                                              THEN "removed" ELSE "added"]]
    /\ resp' = [resp EXCEPT ![t] = NoResp]
    /\ UNCHANGED <<db, sio, log>>

\* POST /api/pins/{pin_id}/vote, up to the update: find_one, the 404, and the
\* choice of the branch from the voted_by that was read
vote_pin(t, pin_id, user_id) ==
    /\ CanStart(t)
    /\ calls' = calls + 1
    /\ LET pin == FindOne(db_pins, pin_id)
       IN  IF pin = <<>>
           THEN /\ resp' = [resp EXCEPT ![t] = NotFound("vote_pin", "Pin not found")]
                /\ UNCHANGED task
           ELSE /\ task' = [task EXCEPT ![t] =
                              [Idle EXCEPT !.pc = "vote_update", !.pin = pin_id,
                                           !.user = user_id, !.room = pin[1].room_id,
                                           !.docs = pin,
                                           !.action = IF user_id \in Range(pin[1].voted_by)
                                                      THEN "removed" ELSE "added"]]
                /\ resp' = [resp EXCEPT ![t] = NoResp]
    /\ UNCHANGED <<db, sio, log>>

\* vote_update writing back the list and the count it read ("$set" of both)
vote_update_write_back(t) ==
    /\ task[t].pc = "vote_update"
    /\ LET i == Matched(db_pins, task[t].pin)
           read == task[t].docs[1]
       IN  db_pins' =
             IF i = 0 THEN db_pins
             ELSE [db_pins EXCEPT ![i] =
                     IF task[t].action = "removed"
                     THEN [@ EXCEPT !.voted_by = Pull(read.voted_by, task[t].user),
                                    !.votes = read.votes - 1]
                     ELSE [@ EXCEPT !.voted_by = Push(read.voted_by, task[t].user),
                                    !.votes = read.votes + 1]]
    /\ task' = [task EXCEPT ![t].pc = "vote_reread"]
    /\ UNCHANGED <<db_rooms, db_users, sio, log, resp, calls>>

\* vote_pin: the update_one of the branch chosen
vote_update(t) ==
    /\ task[t].pc = "vote_update"
    /\ db_pins' = IF task[t].action = "removed"
                  THEN PullVote(db_pins, task[t].pin, task[t].user)
                  ELSE PushVote(db_pins, task[t].pin, task[t].user)
    /\ task' = [task EXCEPT ![t].pc = "vote_reread"]
    /\ UNCHANGED <<db_rooms, db_users, sio, log, resp, calls>>

\* vote_pin emitting the pin it read at first instead of reading it again
vote_reread_skipped(t) ==
    /\ task[t].pc = "vote_reread"
    /\ task' = [task EXCEPT ![t].pc = "vote_emit"]
    /\ UNCHANGED <<db, sio, log, resp, calls>>

\* vote_pin: updated_pin = find_one
vote_reread(t) ==
    /\ task[t].pc = "vote_reread"
    /\ task' = [task EXCEPT ![t].pc = "vote_emit",
                            ![t].docs = FindOne(db_pins, task[t].pin)]
    /\ UNCHANGED <<db, sio, log, resp, calls>>

\* vote_pin from its emit to the return
vote_emit(t) ==
    /\ task[t].pc = "vote_emit"
    /\ log' = Emit("pin_modified", task[t].room, task[t].docs)
    /\ resp' = [resp EXCEPT ![t] =
                  Ok("vote_pin", <<[message |-> task[t].action,
                                    votes |-> task[t].docs[1].votes]>>)]
    /\ task' = [task EXCEPT ![t] = Idle]
    /\ UNCHANGED <<db, sio, calls>>

\* GET /api/rooms/{room_id}/optimal-location
get_optimal_location(t, room_id) ==
    /\ CanStart(t)
    /\ calls' = calls + 1
    /\ LET centroid == calculate_centroid(room_id)
       IN  resp' = [resp EXCEPT ![t] =
                      IF centroid = <<>>
                      THEN NotFound("get_optimal_location", "No pins found in room")
                      ELSE Ok("get_optimal_location", centroid)]
    /\ UNCHANGED <<db, sio, log, task>>

\* ------------------------------------------------------------ users (REST)
\* POST /api/users
create_user(t, name) ==
    /\ CanStart(t)
    /\ Len(db_users) < Len(UserUuids)
    /\ calls' = calls + 1
    /\ LET user == NewUser(UserUuids[Len(db_users) + 1], name)
       IN  /\ db_users' = Append(db_users, user)
           /\ resp' = [resp EXCEPT ![t] = Ok("create_user", <<user>>)]
    /\ UNCHANGED <<db_rooms, db_pins, sio, log, task>>

\* ------------------------------------------------------------ Socket.IO events
\* connect: the server generates the sid, and never the same one twice
connect(sid) ==
    /\ Cardinality(connected \cup closed) < Len(SidOrder)
    /\ sid = SidOrder[Cardinality(connected \cup closed) + 1]
    /\ calls < MaxCalls
    /\ calls' = calls + 1
    /\ connected' = connected \cup {sid}
    /\ UNCHANGED <<db, sio_rooms, closed, log, task, resp>>

\* disconnect: the handler prints; the server drops the sid from its rooms
disconnect(sid) ==
    /\ sid \in connected
    /\ calls < MaxCalls
    /\ calls' = calls + 1
    /\ connected' = connected \ {sid}
    /\ closed' = closed \cup {sid}
    /\ sio_rooms' = [r \in RoomNames |-> sio_rooms[r] \ {sid}]
    /\ UNCHANGED <<db, log, task, resp>>

\* join_room event recording the name in the members of the room as well
join_room_recorded(t, sid, room_id, user_name) ==
    /\ CanStart(t)
    /\ sid \in connected
    /\ calls' = calls + 1
    /\ sio_rooms' = [sio_rooms EXCEPT ![room_id] = @ \cup {sid}]
    /\ db_rooms' = PushMember(db_rooms, room_id, user_name)
    /\ task' = [task EXCEPT ![t] =
                  [Idle EXCEPT !.pc = "join_room_emit", !.sid = sid, !.room = room_id,
                               !.user = user_name]]
    /\ UNCHANGED <<db_pins, db_users, connected, closed, log, resp>>

\* join_room event: sio.enter_room
join_room(t, sid, room_id, user_name) ==
    /\ CanStart(t)
    /\ sid \in connected
    /\ calls' = calls + 1
    /\ sio_rooms' = [sio_rooms EXCEPT ![room_id] = @ \cup {sid}]
    /\ task' = [task EXCEPT ![t] =
                  [Idle EXCEPT !.pc = "join_room_emit", !.sid = sid, !.room = room_id,
                               !.user = user_name]]
    /\ UNCHANGED <<db, connected, closed, log, resp>>

\* join_room event: emit user_joined to the room
join_room_emit(t) ==
    /\ task[t].pc = "join_room_emit"
    /\ log' = Emit("user_joined", task[t].room, <<[user_name |-> task[t].user]>>)
    /\ task' = [task EXCEPT ![t].pc = "join_room_find"]
    /\ UNCHANGED <<db, sio, resp, calls>>

\* join_room event: pins = find_pins_in_room
join_room_find(t) ==
    /\ task[t].pc = "join_room_find"
    /\ task' = [task EXCEPT ![t].pc = "join_room_send",
                            ![t].docs = find_pins_in_room(task[t].room)]
    /\ UNCHANGED <<db, sio, log, resp, calls>>

\* join_room emitting pins_update to the room instead of the sid
join_room_send_to_room(t) ==
    /\ task[t].pc = "join_room_send"
    /\ log' = Emit("pins_update", task[t].room, task[t].docs)
    /\ task' = [task EXCEPT ![t] = Idle]
    /\ UNCHANGED <<db, sio, resp, calls>>

\* join_room event: emit pins_update to the sid alone
join_room_send(t) ==
    /\ task[t].pc = "join_room_send"
    /\ log' = EmitToSid("pins_update", task[t].sid, task[t].docs)
    /\ task' = [task EXCEPT ![t] = Idle]
    /\ UNCHANGED <<db, sio, resp, calls>>

\* leave_room without the sio.leave_room call
leave_room_still_entered(t, sid, room_id, user_name) ==
    /\ CanStart(t)
    /\ sid \in connected
    /\ calls' = calls + 1
    /\ task' = [task EXCEPT ![t] =
                  [Idle EXCEPT !.pc = "leave_room_emit", !.sid = sid, !.room = room_id,
                               !.user = user_name]]
    /\ UNCHANGED <<db, sio, log, resp>>

\* leave_room emitting user_left before the sio.leave_room call
leave_room_emit_first(t, sid, room_id, user_name) ==
    /\ CanStart(t)
    /\ sid \in connected
    /\ calls' = calls + 1
    /\ log' = Emit("user_left", room_id, <<[user_name |-> user_name]>>)
    /\ sio_rooms' = [sio_rooms EXCEPT ![room_id] = @ \ {sid}]
    /\ UNCHANGED <<db, connected, closed, task, resp>>

\* leave_room event: sio.leave_room
leave_room(t, sid, room_id, user_name) ==
    /\ CanStart(t)
    /\ sid \in connected
    /\ calls' = calls + 1
    /\ sio_rooms' = [sio_rooms EXCEPT ![room_id] = @ \ {sid}]
    /\ task' = [task EXCEPT ![t] =
                  [Idle EXCEPT !.pc = "leave_room_emit", !.sid = sid, !.room = room_id,
                               !.user = user_name]]
    /\ UNCHANGED <<db, connected, closed, log, resp>>

\* leave_room event: emit user_left to the room
leave_room_emit(t) ==
    /\ task[t].pc = "leave_room_emit"
    /\ log' = Emit("user_left", task[t].room, <<[user_name |-> task[t].user]>>)
    /\ task' = [task EXCEPT ![t] = Idle]
    /\ UNCHANGED <<db, sio, resp, calls>>

\* pin_created inserting the payload in db.pins as well as relaying it
pin_created_inserted(t, sid, data) ==
    /\ CanStart(t)
    /\ sid \in connected
    /\ calls' = calls + 1
    /\ db_pins' = Append(db_pins, NewPin(data.id, data.room_id, "-"))
    /\ log' = Emit("pin_added", data.room_id, <<data>>)
    /\ UNCHANGED <<db_rooms, db_users, sio, task, resp>>

\* pin_created event: relay the payload as pin_added
pin_created(t, sid, data) ==
    /\ CanStart(t)
    /\ sid \in connected
    /\ calls' = calls + 1
    /\ log' = Emit("pin_added", data.room_id, <<data>>)
    /\ UNCHANGED <<db, sio, task, resp>>

\* pin_updated event: relay the payload as pin_modified
pin_updated(t, sid, data) ==
    /\ CanStart(t)
    /\ sid \in connected
    /\ calls' = calls + 1
    /\ log' = Emit("pin_modified", data.room_id, <<data>>)
    /\ UNCHANGED <<db, sio, task, resp>>

\* pin_deleted event: relay the payload as pin_removed
pin_deleted(t, sid, data) ==
    /\ CanStart(t)
    /\ sid \in connected
    /\ calls' = calls + 1
    /\ log' = Emit("pin_removed", data.room_id, <<data>>)
    /\ UNCHANGED <<db, sio, task, resp>>

\* ------------------------------------------------------------ the system
\* The client side of the three events that change what a sid asked for.
ev_disconnect(s) ==
    /\ disconnect(s)
    /\ intent' = [intent EXCEPT ![s] = {}]
    /\ UNCHANGED votes_history

ev_join_room(t, s, r, n) ==
    /\ join_room(t, s, r, n)
    /\ intent' = [intent EXCEPT ![s] = @ \cup {r}]
    /\ UNCHANGED votes_history

ev_leave_room(t, s, r, n) ==
    /\ leave_room(t, s, r, n)
    /\ intent' = [intent EXCEPT ![s] = @ \ {r}]
    /\ UNCHANGED votes_history

RoomsRest ==
    \/ \E t \in Tasks, u \in Users : create_room(t, u) /\ UNCHANGED history
    \/ \E t \in Tasks, r \in RoomNames, u \in Users :
          join_room_api(t, r, u) /\ UNCHANGED history
    \/ \E t \in Tasks : join_update(t) /\ UNCHANGED history

CreatePinRest ==
    \/ \E t \in Tasks, r \in RoomNames, u \in Users :
          create_pin(t, r, u) /\ UNCHANGED history
    \/ \E t \in Tasks : create_pin_emit(t) /\ UNCHANGED history

VoteRest ==
    \/ \E t \in Tasks, p \in PinNames, u \in Users :
          vote_pin(t, p, u) /\ UNCHANGED history
    \/ \E t \in Tasks : vote_update(t) /\ UNCHANGED history
    \/ \E t \in Tasks : vote_reread(t) /\ UNCHANGED history
    \/ \E t \in Tasks : vote_emit(t) /\ UNCHANGED history

ReadRest ==
    \/ \E t \in Tasks, r \in RoomNames : get_room_pins(t, r) /\ UNCHANGED history
    \/ \E t \in Tasks, r \in RoomNames : get_optimal_location(t, r) /\ UNCHANGED history

UsersRest ==
    \E t \in Tasks, n \in UserNames : create_user(t, n) /\ UNCHANGED history

Sessions ==
    \/ \E s \in Sids : connect(s) /\ UNCHANGED history
    \/ \E s \in Sids : ev_disconnect(s)
    \/ \E t \in Tasks, s \in Sids, r \in RoomNames, n \in UserNames :
          ev_join_room(t, s, r, n)
    \/ \E t \in Tasks : join_room_emit(t) /\ UNCHANGED history
    \/ \E t \in Tasks : join_room_find(t) /\ UNCHANGED history
    \/ \E t \in Tasks : join_room_send(t) /\ UNCHANGED history
    \/ \E t \in Tasks, s \in Sids, r \in RoomNames, n \in UserNames :
          ev_leave_room(t, s, r, n)
    \/ \E t \in Tasks : leave_room_emit(t) /\ UNCHANGED history

Relay ==
    \/ \E t \in Tasks, s \in Sids, d \in ClientData :
          pin_created(t, s, d) /\ UNCHANGED history
    \/ \E t \in Tasks, s \in Sids, d \in ClientData :
          pin_updated(t, s, d) /\ UNCHANGED history
    \/ \E t \in Tasks, s \in Sids, d \in ClientData :
          pin_deleted(t, s, d) /\ UNCHANGED history

\* the whole server
Next ==
    \/ RoomsRest
    \/ CreatePinRest
    \/ VoteRest
    \/ ReadRest
    \/ UsersRest
    \/ Sessions
    \/ Relay

Spec == Init /\ [][Next]_vars

\* the handlers that write db.pins, with the sessions that receive their emits
NextPins ==
    \/ CreatePinRest
    \/ VoteRest
    \/ Sessions

SpecPins == Init /\ [][NextPins]_vars

\* the handlers that write db.rooms, with the sessions and a handler that emits
NextRooms ==
    \/ RoomsRest
    \/ CreatePinRest
    \/ Sessions

SpecRooms == Init /\ [][NextRooms]_vars

\* the live side: the events, and a REST handler that emits
NextLive ==
    \/ Sessions
    \/ Relay
    \/ CreatePinRest

SpecLive == Init /\ [][NextLive]_vars

\* the handlers that read, with those that write what they read and the sessions
NextReads ==
    \/ ReadRest
    \/ RoomsRest
    \/ CreatePinRest
    \/ UsersRest
    \/ Sessions

SpecReads == Init /\ [][NextReads]_vars

\* ------------------------------------------------------------ vote scenarios
\* One pin that has been voted on, by users who call vote_pin in the scenario
\* and by one ("u0") who does not: the states that create_pin and a sequence of
\* vote_pin calls, one after the other, leave behind them.
Voters == Users \cup {"u0"}

VoterLists ==
    {v \in UNION {[1..n -> Voters] : n \in 0..Cardinality(Voters)} : NoDup(v)}

InitVoted ==
    /\ \E v \in VoterLists :
          db_pins = <<[NewPin(PinUuids[1], "r1", "u1")
                         EXCEPT !.voted_by = v, !.votes = Len(v)]>>
    /\ snap = db_pins
    /\ db_rooms = <<>>
    /\ db_users = <<>>
    /\ sio_rooms = [r \in RoomNames |-> {}]
    /\ connected = {}
    /\ closed = {}
    /\ log = <<>>
    /\ task = [t \in Tasks |-> Idle]
    /\ resp = [t \in Tasks |-> NoResp]
    /\ calls = 0
    /\ intent = [s \in Sids |-> {}]
    /\ called = <<>>
    /\ returned = <<>>

AllIdle == \A t \in Tasks : task[t].pc = "idle"

\* a vote_pin call of the scenario begins
sc_vote_pin(t, p, u) ==
    /\ vote_pin(t, p, u)
    /\ called' = Append(called, [pin |-> p, user |-> u])
    /\ UNCHANGED <<intent, snap, returned>>

\* a vote_pin call of the scenario returns
sc_vote_emit(t) ==
    /\ vote_emit(t)
    /\ returned' = Append(returned, resp'[t])
    /\ UNCHANGED <<intent, snap, called>>

VoteSteps ==
    \/ \E t \in Tasks : vote_update(t) /\ UNCHANGED history
    \/ \E t \in Tasks : vote_reread(t) /\ UNCHANGED history
    \/ \E t \in Tasks : sc_vote_emit(t)

\* two calls on the pin by two different users, overlapping in any way
NextTwoVoters ==
    \/ \E t \in Tasks, u \in Users :
          /\ Len(called) < 2
          /\ \A i \in 1..Len(called) : called[i].user # u
          /\ sc_vote_pin(t, snap[1].id, u)
    \/ VoteSteps

SpecTwoVoters == InitVoted /\ [][NextTwoVoters]_vars

\* two calls on the pin by one user, the second after the first has returned
NextVoteTwice ==
    \/ \E t \in Tasks, u \in Users :
          /\ Len(called) < 2
          /\ AllIdle
          /\ \A i \in 1..Len(called) : called[i].user = u
          /\ sc_vote_pin(t, snap[1].id, u)
    \/ VoteSteps

SpecVoteTwice == InitVoted /\ [][NextVoteTwice]_vars

\* ------------------------------------------------------------ watched scenario
\* One pin in room "r1", two connected sessions that have joined "r1", one of
\* them "r2" as well, and no session event from then on: the sessions stay
\* subscribed while create_pin and vote_pin calls run, overlapping in any way.
InitWatched ==
    /\ \E v \in {<<>>, <<"u1">>} :
          db_pins = <<[NewPin(PinUuids[1], "r1", "u1")
                         EXCEPT !.voted_by = v, !.votes = Len(v)]>>
    /\ snap = db_pins
    /\ db_rooms = <<>>
    /\ db_users = <<>>
    /\ connected = {"s1", "s2"}
    /\ closed = {}
    /\ sio_rooms = [r \in RoomNames |-> IF r = "r1" THEN {"s1", "s2"} ELSE {"s2"}]
    /\ intent = [s \in Sids |-> IF s = "s1" THEN {"r1"} ELSE {"r1", "r2"}]
    /\ log = <<>>
    /\ task = [t \in Tasks |-> Idle]
    /\ resp = [t \in Tasks |-> NoResp]
    /\ calls = 0
    /\ called = <<>>
    /\ returned = <<>>

\* the call that task t is running: the last one it began
CallOf(t) ==
    CHOOSE i \in 1..Len(called) :
        /\ called[i].task = t
        /\ \A j \in (i + 1)..Len(called) : called[j].task # t

\* a create_pin call begins: what it is, and how many calls had returned
watched_create_pin(t, r, u) ==
    /\ Len(called) < MaxWatched
    /\ create_pin(t, r, u)
    /\ called' = Append(called, [op |-> "create_pin", task |-> t, room |-> r,
                                 pin |-> PinUuids[Len(db_pins) + 1],
                                 after |-> Len(returned)])
    /\ UNCHANGED <<intent, snap, returned>>

\* a vote_pin call on a persisted pin begins
watched_vote_pin(t, p, u) ==
    /\ Len(called) < MaxWatched
    /\ FindOne(db_pins, p) # <<>>
    /\ vote_pin(t, p, u)
    /\ called' = Append(called, [op |-> "vote_pin", task |-> t,
                                 room |-> FindOne(db_pins, p)[1].room_id,
                                 pin |-> p, after |-> Len(returned)])
    /\ UNCHANGED <<intent, snap, returned>>

\* a create_pin call returns: which call, and where the log ended then
watched_create_pin_emit(t) ==
    /\ create_pin_emit(t)
    /\ returned' = Append(returned, [call |-> CallOf(t), sent |-> Len(log')])
    /\ UNCHANGED <<intent, snap, called>>

\* a vote_pin call returns
watched_vote_emit(t) ==
    /\ vote_emit(t)
    /\ returned' = Append(returned, [call |-> CallOf(t), sent |-> Len(log')])
    /\ UNCHANGED <<intent, snap, called>>

NextWatched ==
    \/ \E t \in Tasks, r \in RoomNames, u \in Users : watched_create_pin(t, r, u)
    \/ \E t \in Tasks : watched_create_pin_emit(t)
    \/ \E t \in Tasks, p \in PinNames, u \in Users : watched_vote_pin(t, p, u)
    \/ \E t \in Tasks : vote_update(t) /\ UNCHANGED history
    \/ \E t \in Tasks : vote_reread(t) /\ UNCHANGED history
    \/ \E t \in Tasks : watched_vote_emit(t)

SpecWatched == InitWatched /\ [][NextWatched]_vars

\* the two sessions of the watched scenario go on joining and leaving rooms
NextMembers ==
    \/ \E t \in Tasks, s \in Sids, r \in RoomNames, n \in UserNames :
          calls < MaxWatched /\ ev_join_room(t, s, r, n)
    \/ \E t \in Tasks : join_room_emit(t) /\ UNCHANGED history
    \/ \E t \in Tasks : join_room_find(t) /\ UNCHANGED history
    \/ \E t \in Tasks : join_room_send(t) /\ UNCHANGED history
    \/ \E t \in Tasks, s \in Sids, r \in RoomNames, n \in UserNames :
          calls < MaxWatched /\ ev_leave_room(t, s, r, n)
    \/ \E t \in Tasks : leave_room_emit(t) /\ UNCHANGED history
    \/ \E s \in Sids : calls < MaxWatched /\ ev_disconnect(s)

SpecMembers == InitWatched /\ [][NextMembers]_vars

\* the sessions of the watched scenario send pin events, while the pins are
\* read through REST and a session joins a room
NextRelay ==
    \/ \E t \in Tasks, s \in Sids, d \in ClientData :
          calls < MaxWatched /\ pin_created(t, s, d) /\ UNCHANGED history
    \/ \E t \in Tasks, s \in Sids, d \in ClientData :
          calls < MaxWatched /\ pin_updated(t, s, d) /\ UNCHANGED history
    \/ \E t \in Tasks, s \in Sids, d \in ClientData :
          calls < MaxWatched /\ pin_deleted(t, s, d) /\ UNCHANGED history
    \/ \E t \in Tasks, r \in RoomNames :
          calls < MaxWatched /\ get_room_pins(t, r) /\ UNCHANGED history
    \/ \E t \in Tasks, s \in Sids, r \in RoomNames, n \in UserNames :
          calls < MaxWatched /\ ev_join_room(t, s, r, n)
    \/ \E t \in Tasks : join_room_emit(t) /\ UNCHANGED history
    \/ \E t \in Tasks : join_room_find(t) /\ UNCHANGED history
    \/ \E t \in Tasks : join_room_send(t) /\ UNCHANGED history

SpecRelay == InitWatched /\ [][NextRelay]_vars

\* the payloads a client sends with pin_deleted to delete a persisted pin
DeletePayloads ==
    {[room_id |-> db_pins[i].room_id, id |-> db_pins[i].id] : i \in 1..Len(db_pins)}

\* the sessions of the watched scenario delete persisted pins, the only way
\* the server offers, while the pins are read and a session joins a room
NextDelete ==
    \/ \E t \in Tasks, s \in Sids, d \in DeletePayloads :
          calls < MaxWatched /\ pin_deleted(t, s, d) /\ UNCHANGED history
    \/ \E t \in Tasks, r \in RoomNames :
          calls < MaxWatched /\ get_room_pins(t, r) /\ UNCHANGED history
    \/ \E t \in Tasks, s \in Sids, r \in RoomNames, n \in UserNames :
          calls < MaxWatched /\ ev_join_room(t, s, r, n)
    \/ \E t \in Tasks : join_room_emit(t) /\ UNCHANGED history
    \/ \E t \in Tasks : join_room_find(t) /\ UNCHANGED history
    \/ \E t \in Tasks : join_room_send(t) /\ UNCHANGED history

SpecDelete == InitWatched /\ [][NextDelete]_vars

\* ------------------------------------------------------------ claims
Last(s) == s[Len(s)]

\* C1: every persisted pin has votes equal to the number of distinct users in
\* voted_by, in every reachable state.
C1_VotesCountVoters ==
    \A i \in 1..Len(db_pins) :
        db_pins[i].votes = Cardinality(Range(db_pins[i].voted_by))

\* C2: no user appears twice in the voted_by of a persisted pin, in every
\* reachable state.
C2_VoterOnce ==
    \A i \in 1..Len(db_pins) : NoDup(db_pins[i].voted_by)

\* the two calls of a vote scenario have both returned
BothReturned == Len(called) = 2 /\ Len(returned) = 2 /\ AllIdle

\* the +1 or -1 a toggle by u makes to the count of the pin as it was at first
Adjustment(u) == IF u \in Range(snap[1].voted_by) THEN -1 ELSE 1

\* C3: once two vote_pin calls on one pin by two different users have both
\* returned, however their steps interleaved, each caller's membership of
\* voted_by is the opposite of what it was before, everyone else's is what it
\* was, and votes has changed by the sum of the two adjustments.
C3_NoLostUpdate ==
    BothReturned =>
        LET before == snap[1]
            after == db_pins[1]
            callers == {called[1].user, called[2].user}
        IN  /\ \A u \in callers :
                  (u \in Range(after.voted_by)) <=> (u \notin Range(before.voted_by))
            /\ \A u \in Voters \ callers :
                  (u \in Range(after.voted_by)) <=> (u \in Range(before.voted_by))
            /\ after.votes = before.votes + Adjustment(called[1].user)
                                          + Adjustment(called[2].user)

\* C3's case: two different users' calls overlapped (the second began before
\* the first had written), one adding a vote and one removing one, and both
\* have returned.
C3_Witness ==
    /\ BothReturned
    /\ called[1].user # called[2].user
    /\ returned[1].body[1].message # returned[2].body[1].message
    /\ returned[1].body[1].votes = returned[2].body[1].votes
    /\ "u0" \in Range(snap[1].voted_by)

\* C4: once two vote_pin calls by one user on one pin, made one after the
\* other, have both returned, the pin has the votes and the voters it had
\* before, and one call reported "added" and the other "removed".
C4_ToggleTwice ==
    BothReturned =>
        /\ db_pins[1].votes = snap[1].votes
        /\ Range(db_pins[1].voted_by) = Range(snap[1].voted_by)
        /\ returned[1].status = 200 /\ returned[2].status = 200
        /\ {returned[1].body[1].message, returned[2].body[1].message}
              = {"added", "removed"}
        /\ returned[1].body[1].message =
              (IF called[1].user \in Range(snap[1].voted_by) THEN "removed" ELSE "added")

\* C4's case: a user who had voted, among others, toggled twice: the vote was
\* removed, then added again.
C4_Witness ==
    /\ BothReturned
    /\ called[1] = called[2]
    /\ Len(snap[1].voted_by) = 3
    /\ returned[1].body[1].message = "removed"
    /\ returned[2].body[1].message = "added"
    /\ returned[1].body[1].votes = 2 /\ returned[2].body[1].votes = 3

\* the emits a step adds to the log
Emitted == SubSeq(log', Len(log) + 1, Len(log'))

JoinedOk == Ok("join_room_api", <<[message |-> "Successfully joined room"]>>)

\* a room's creator is one of its members
CreatorIsMember ==
    \A i \in 1..Len(db_rooms) : db_rooms[i].created_by \in Range(db_rooms[i].members)

\* a create_room step: the room it adds has its creator as only member, it
\* emits nothing, and it leaves no step of the handler to come
CreateRoomStep ==
    \A t \in Tasks, u \in Users :
        create_room(t, u) =>
            /\ Len(db_rooms') = Len(db_rooms) + 1
            /\ SubSeq(db_rooms', 1, Len(db_rooms)) = db_rooms
            /\ Last(db_rooms').created_by = u
            /\ Last(db_rooms').members = <<u>>
            /\ resp'[t].status = 200 /\ resp'[t].body = <<Last(db_rooms')>>
            /\ log' = log
            /\ task' = task

\* no step removes a room, or a member from a room
MembersOnlyGrow ==
    /\ Len(db_rooms') >= Len(db_rooms)
    /\ \A i \in 1..Len(db_rooms) :
          /\ db_rooms'[i].id = db_rooms[i].id
          /\ db_rooms'[i].created_by = db_rooms[i].created_by
          /\ Len(db_rooms'[i].members) >= Len(db_rooms[i].members)
          /\ SubSeq(db_rooms'[i].members, 1, Len(db_rooms[i].members)) = db_rooms[i].members

\* C5: create_room with creator U adds a room whose members is exactly [U] and
\* emits nothing; from then on no member is ever removed, so the creator stays
\* a member of the room in every later state.
C5_CreatorStaysMember ==
    /\ []CreatorIsMember
    /\ [][CreateRoomStep /\ MembersOnlyGrow]_vars

\* C5's case: while a session was in a Socket.IO room, a room was created and
\* another user then joined it; nothing was emitted but the session's own
\* user_joined and pins_update.
C5_Witness ==
    /\ \E r \in RoomNames : sio_rooms[r] # {}
    /\ \E i \in 1..Len(db_rooms) :
          /\ Len(db_rooms[i].members) = 2
          /\ db_rooms[i].members[1] = db_rooms[i].created_by
    /\ \A i \in 1..Len(log) : log[i].event \in {"user_joined", "pins_update"}

\* C6: join_room_api for a user who is already in the room's members (the
\* creator included) returns success at once and leaves db.rooms as it was.
C6_JoinAgainNoOp ==
    [][\A t \in Tasks, r \in RoomNames, u \in Users :
          (/\ join_room_api(t, r, u)
           /\ FindOne(db_rooms, r) # <<>>
           /\ u \in Range(FindOne(db_rooms, r)[1].members))
          => /\ db_rooms' = db_rooms
             /\ resp'[t] = JoinedOk
             /\ task'[t].pc = "idle"]_vars

\* C6's case: a join was answered with success while no room has any member
\* but its creator: members never shrink, so the join was by a creator, of
\* the creator's own room, and added nothing.
C6_Witness ==
    /\ \E t \in Tasks : resp[t] = JoinedOk
    /\ db_rooms # <<>>
    /\ \A i \in 1..Len(db_rooms) : db_rooms[i].members = <<db_rooms[i].created_by>>

\* C7: join_room_api for a room_id that db.rooms does not hold returns 404 and
\* changes no collection, no Socket.IO room and emits nothing, then or later.
C7_JoinNotFound ==
    [][\A t \in Tasks, r \in RoomNames, u \in Users :
          (join_room_api(t, r, u) /\ FindOne(db_rooms, r) = <<>>)
          => /\ resp'[t] = NotFound("join_room_api", "Room not found")
             /\ resp'[t].status = 404
             /\ db_rooms' = db_rooms /\ db_pins' = db_pins /\ db_users' = db_users
             /\ sio_rooms' = sio_rooms
             /\ log' = log
             /\ task' = task /\ task'[t].pc = "idle"]_vars

\* C7's case: a join of a missing room was answered 404 while another room, a
\* pin and a subscribed session existed.
C7_Witness ==
    \E t \in Tasks :
        /\ resp[t].op = "join_room_api" /\ resp[t].status = 404
        /\ Len(db_rooms) = 1
        /\ db_rooms[1].members = <<db_rooms[1].created_by>>
        /\ \E r \in RoomNames : sio_rooms[r] # {}

\* C8: vote_pin for a pin_id that db.pins does not hold returns 404, writes to
\* no pin and emits nothing, then or later.
C8_VoteNotFound ==
    [][\A t \in Tasks, p \in PinNames, u \in Users :
          (vote_pin(t, p, u) /\ FindOne(db_pins, p) = <<>>)
          => /\ resp'[t] = NotFound("vote_pin", "Pin not found")
             /\ resp'[t].status = 404
             /\ db_pins' = db_pins
             /\ log' = log
             /\ task' = task /\ task'[t].pc = "idle"]_vars

\* C8's case: a vote on a missing pin was answered 404 while another pin, and
\* a session in its room, existed.
C8_Witness ==
    \E t \in Tasks :
        /\ resp[t].op = "vote_pin" /\ resp[t].status = 404
        /\ Len(db_pins) = 1
        /\ sio_rooms[db_pins[1].room_id] # {}

\* the pin_added emits whose payload bears the id p
PinAdded(p) ==
    SelectSeq(log, LAMBDA e : e.event = "pin_added" /\ e.data # <<>> /\ e.data[1].id = p)

\* the pin as create_pin built it
AsCreated(d) ==
    [id |-> d.id, room_id |-> d.room_id, created_by |-> d.created_by,
     votes |-> 0, voted_by |-> <<>>]

\* a pin that is not persisted has not been announced; a persisted one has
\* been announced once, unless its create_pin is still before its emit, and
\* then to its own room with the pin as it was created
PinAddedOnce ==
    \A p \in PinNames :
        LET doc == FindOne(db_pins, p)
            pending == \E t \in Tasks :
                          task[t].pc = "create_pin_emit" /\ task[t].pin = p
        IN  /\ Len(PinAdded(p)) = IF doc # <<>> /\ ~pending THEN 1 ELSE 0
            /\ \A i \in 1..Len(PinAdded(p)) :
                  /\ PinAdded(p)[i].room = doc[1].room_id
                  /\ PinAdded(p)[i].data = <<AsCreated(doc[1])>>
                  /\ PinAdded(p)[i].to \subseteq Sids

\* a create_pin step inserts one pin, with no vote, and does not emit yet
CreatePinStep ==
    \A t \in Tasks, r \in RoomNames, u \in Users :
        create_pin(t, r, u) =>
            /\ Len(db_pins') = Len(db_pins) + 1
            /\ SubSeq(db_pins', 1, Len(db_pins)) = db_pins
            /\ Last(db_pins').room_id = r /\ Last(db_pins').created_by = u
            /\ Last(db_pins').votes = 0 /\ Last(db_pins').voted_by = <<>>
            /\ log' = log

\* the emit of create_pin: one pin_added, to the room of the pin, delivered to
\* the sessions in that room, with the pin that was inserted, which is still
\* in db.pins
CreatePinEmitStep ==
    \A t \in Tasks :
        create_pin_emit(t) =>
            /\ Len(Emitted) = 1
            /\ Emitted[1].event = "pin_added"
            /\ FindOne(db_pins, Emitted[1].data[1].id) # <<>>
            /\ Emitted[1].data = <<AsCreated(FindOne(db_pins, Emitted[1].data[1].id)[1])>>
            /\ Emitted[1].room = Emitted[1].data[1].room_id
            /\ Emitted[1].to = sio_rooms[Emitted[1].room]
            /\ resp'[t] = Ok("create_pin", Emitted[1].data)

\* C9: create_pin inserts a pin with votes 0 and an empty voted_by, and then
\* emits pin_added exactly once, to the room of the pin, with the pin as it was
\* inserted; no pin_added is emitted for a pin that is not persisted.
C9_PinAddedOnce ==
    /\ []PinAddedOnce
    /\ [][CreatePinStep /\ CreatePinEmitStep]_vars

\* C9's case: a session in the room received the pin_added of a pin that had
\* been voted on between its insert and its emit.
C9_Witness ==
    \E i \in 1..Len(log) :
        /\ log[i].event = "pin_added"
        /\ log[i].to # {}
        /\ db_pins # <<>>
        /\ log[i].data[1].id = db_pins[1].id
        /\ db_pins[1].votes = 1
        /\ log[i].data[1].votes = 0

\* the sids whose clients have asked to be in room r and have not left it
Subscribed(r) == {s \in Sids : r \in intent[s]}

\* the registry holds, for every room, the sessions that asked to join it and
\* have neither left it nor disconnected; a closed session is in no room
RegistryTracksIntent ==
    /\ \A r \in RoomNames : sio_rooms[r] = Subscribed(r)
    /\ \A s \in Sids : s \notin connected => \A r \in RoomNames : s \notin sio_rooms[r]

\* every emit to a room is delivered to the sessions subscribed to it then
DeliveredToSubscribed ==
    \A i \in 1..Len(Emitted) :
        Emitted[i].room \in RoomNames => Emitted[i].to = Subscribed(Emitted[i].room)

\* C10: a session that has joined room R and neither left it nor disconnected
\* is delivered every emit addressed to R; one that has left R or disconnected
\* is delivered none; a disconnected session is in no room.
C10_SubscribedReceive ==
    /\ []RegistryTracksIntent
    /\ [][DeliveredToSubscribed]_vars

\* C10's case: a session received an emit to a room, disconnected, and was not
\* delivered a later emit to that room.
C10_Witness ==
    \E s \in closed : \E i, j \in 1..Len(log) :
        /\ i < j
        /\ log[i].room = log[j].room
        /\ s \in log[i].to
        /\ s \notin log[j].to
        /\ \A r \in RoomNames : s \notin sio_rooms[r]

\* emit e is the one call c makes: pin_added for create_pin, pin_modified for
\* vote_pin, to the room of the pin, about the pin
IsBroadcastOf(e, c) ==
    /\ e.event = (IF c.op = "create_pin" THEN "pin_added" ELSE "pin_modified")
    /\ e.room = c.room
    /\ e.data # <<>>
    /\ e.data[1].id = c.pin

\* C11: for two create_pin or vote_pin calls A and B on one room, whatever
\* else overlaps them, if A returned before B began then A's emit is earlier
\* in the log than B's, and every session subscribed to the room throughout is
\* delivered both, so it receives A's before B's.
C11_BroadcastsInCallOrder ==
    \A a, b \in 1..Len(returned) :
        LET A == called[returned[a].call]
            B == called[returned[b].call]
        IN  (a <= B.after /\ A.room = B.room) =>
                /\ returned[a].sent < returned[b].sent
                /\ IsBroadcastOf(log[returned[a].sent], A)
                /\ IsBroadcastOf(log[returned[b].sent], B)
                /\ \A s \in Subscribed(A.room) :
                      /\ s \in log[returned[a].sent].to
                      /\ s \in log[returned[b].sent].to

\* C11's case: while a first call was still running, a vote_pin returned and a
\* create_pin on the same room then began and returned; two sessions were
\* subscribed to the room.
C11_Witness ==
    /\ Len(called) = 3 /\ Len(returned) = 2
    /\ returned[1].call = 2 /\ returned[2].call = 3
    /\ called[3].after = 1
    /\ called[2].op = "vote_pin" /\ called[3].op = "create_pin"
    /\ called[2].room = called[3].room
    /\ Cardinality(Subscribed(called[2].room)) = 2
    /\ \E t \in Tasks : task[t].pc # "idle"

\* C12: get_optimal_location(room_id) returns 404 exactly when db.pins holds
\* no pin with that room_id, whether db.rooms holds the room or not, and
\* otherwise 200 with a result of type "centroid"; either way it changes no
\* collection and no Socket.IO room, emits nothing and has no step to come.
C12_OptimalLocation ==
    [][\A t \in Tasks, r \in RoomNames :
          get_optimal_location(t, r) =>
             /\ (resp'[t].status = 404) <=> (\A i \in 1..Len(db_pins) : db_pins[i].room_id # r)
             /\ resp'[t].status = 404 =>
                   resp'[t] = NotFound("get_optimal_location", "No pins found in room")
             /\ resp'[t].status # 404 =>
                   /\ resp'[t].status = 200
                   /\ Len(resp'[t].body) = 1
                   /\ resp'[t].body[1].type = "centroid"
             /\ db_rooms' = db_rooms /\ db_pins' = db_pins /\ db_users' = db_users
             /\ sio_rooms' = sio_rooms /\ connected' = connected
             /\ log' = log
             /\ task' = task]_vars

\* C12's case: a call for a room that db.rooms holds was answered 404, the
\* only pin being in the other room, while a session was connected.
C12_Witness ==
    /\ \E t \in Tasks :
          resp[t].op = "get_optimal_location" /\ resp[t].status = 404
    /\ Len(db_pins) = 1
    /\ Len(db_rooms) = 1
    /\ db_pins[1].room_id # db_rooms[1].id
    /\ connected # {}

\* the pin_modified emits whose payload bears the id p
PinModified(p) ==
    SelectSeq(log, LAMBDA e : e.event = "pin_modified" /\ e.data # <<>> /\ e.data[1].id = p)

\* C13: once every vote_pin call of a set of overlapping calls on a pin has
\* returned, the last pin_modified about the pin was delivered to the sessions
\* subscribed to its room throughout, and its payload is the pin as db.pins
\* holds it.
C13_LastModifiedIsFinal ==
    (AllIdle /\ Len(returned) = Len(called)) =>
        \A p \in PinNames :
            PinModified(p) # <<>> =>
                /\ Last(PinModified(p)).data = FindOne(db_pins, p)
                /\ Subscribed(Last(PinModified(p)).room) \subseteq Last(PinModified(p)).to

\* C14: no persisted pin has a negative votes, in every reachable state,
\* whatever vote_pin calls overlap.
C14_VotesNotNegative ==
    \A i \in 1..Len(db_pins) : db_pins[i].votes >= 0

\* the first step of vote_pin on a persisted pin chooses "removed" if the user
\* is in the voted_by it reads and "added" if not, writes and emits nothing,
\* and goes on to the update
VoteReadStep ==
    \A t \in Tasks, p \in PinNames, u \in Users :
        (vote_pin(t, p, u) /\ FindOne(db_pins, p) # <<>>) =>
            /\ task'[t].pc = "vote_update"
            /\ task'[t].action =
                  (IF u \in Range(FindOne(db_pins, p)[1].voted_by) THEN "removed" ELSE "added")
            /\ db_pins' = db_pins
            /\ log' = log

\* a call that has read goes through its update, then its re-read, then its
\* emit, and no other way: the update applies the branch chosen and emits
\* nothing; the re-read takes the pin as db.pins holds it then; the last step
\* emits that pin once, as pin_modified, to the room of the pin, and returns
\* the action chosen with the votes of the payload
VoteStepsInOrder ==
    \A t \in Tasks :
        /\ (task[t].pc = "vote_update" /\ task'[t] # task[t]) =>
              /\ task'[t] = [task[t] EXCEPT !.pc = "vote_reread"]
              /\ db_pins' = (IF task[t].action = "removed"
                             THEN PullVote(db_pins, task[t].pin, task[t].user)
                             ELSE PushVote(db_pins, task[t].pin, task[t].user))
              /\ log' = log
        /\ (task[t].pc = "vote_reread" /\ task'[t] # task[t]) =>
              /\ task'[t] = [task[t] EXCEPT !.pc = "vote_emit",
                                            !.docs = FindOne(db_pins, task[t].pin)]
              /\ db_pins' = db_pins
              /\ log' = log
        /\ (task[t].pc = "vote_emit" /\ task'[t] # task[t]) =>
              /\ task'[t].pc = "idle"
              /\ db_pins' = db_pins
              /\ Len(Emitted) = 1
              /\ Emitted[1].event = "pin_modified"
              /\ Emitted[1].room = FindOne(db_pins, task[t].pin)[1].room_id
              /\ Emitted[1].to = sio_rooms[Emitted[1].room]
              /\ Emitted[1].data = task[t].docs
              /\ resp'[t].status = 200
              /\ resp'[t].body = <<[message |-> task[t].action,
                                    votes |-> Emitted[1].data[1].votes]>>
        /\ (task'[t].pc = "vote_reread" /\ task'[t] # task[t]) => task[t].pc = "vote_update"
        /\ (task'[t].pc = "vote_emit" /\ task'[t] # task[t]) => task[t].pc = "vote_reread"

\* a pin_modified is emitted only by the last step of a vote_pin call
ModifiedByVoteOnly ==
    \A i \in 1..Len(Emitted) :
        Emitted[i].event = "pin_modified" =>
            \E t \in Tasks : task[t].pc = "vote_emit" /\ task'[t].pc = "idle"

\* C15: a vote_pin call on a persisted pin emits exactly one pin_modified, to
\* the room of the pin, whose payload is the pin as read from db.pins after
\* the call's own update; it returns "removed" if the user was in the
\* voted_by read at first and "added" if not, with the votes of the payload.
C15_VoteEmitsReread ==
    [][VoteReadStep /\ VoteStepsInOrder /\ ModifiedByVoteOnly]_vars

\* C15's case: a user's vote was removed while another user's was added; the
\* call that removed returned last, with the votes of the pin_modified it
\* emitted to the two subscribed sessions, which shows both updates.
C15_Witness ==
    /\ snap[1].voted_by = <<"u1">>
    /\ \E t \in Tasks : resp[t] = Ok("vote_pin", <<[message |-> "removed", votes |-> 1]>>)
    /\ Len(log) = 2
    /\ Last(log).event = "pin_modified"
    /\ Last(log).data[1].voted_by = <<"u2">>
    /\ Last(log).data[1].votes = 1
    /\ Last(log).to = {"s1", "s2"}
    /\ AllIdle

\* an emit to a room reaches the sids the registry holds for the room when the
\* emit is made, and no other sid, whatever other rooms a sid is in
DeliveredToMembers ==
    \A i \in 1..Len(Emitted) :
        Emitted[i].room \in RoomNames =>
            \A s \in Sids : (s \in Emitted[i].to) <=> (s \in sio_rooms[Emitted[i].room])

\* an emit about a pin is addressed to the room_id of its payload
AddressedToPinRoom ==
    \A i \in 1..Len(Emitted) :
        Emitted[i].event \in {"pin_added", "pin_modified", "pin_removed"} =>
            /\ Emitted[i].room \in RoomNames
            /\ Emitted[i].room = Emitted[i].data[1].room_id

\* C16: an emit addressed to room R is delivered to exactly the sessions in R
\* when it is made: never to a session that is in no room or only in other
\* rooms, and a session in several rooms is delivered the emits of each.
C16_ExactlyMembers ==
    [][DeliveredToMembers /\ AddressedToPinRoom]_vars

\* C16's case: a session in both rooms was delivered an emit to each of them,
\* and a second connected session, in no room, neither.
C16_Witness ==
    /\ connected = {"s1", "s2"}
    /\ \E s \in connected :
          /\ \A r \in RoomNames : sio_rooms[r] = {s}
          /\ \A r \in RoomNames : \E i \in 1..Len(log) :
                log[i].room = r /\ log[i].to = {s}

\* the first step of join_room enters the sid in the room and emits nothing
JoinEntersFirst ==
    \A t \in Tasks, s \in Sids, r \in RoomNames, n \in UserNames :
        join_room(t, s, r, n) =>
            /\ sio_rooms'[r] = sio_rooms[r] \cup {s}
            /\ \A q \in RoomNames \ {r} : sio_rooms'[q] = sio_rooms[q]
            /\ task'[t].pc = "join_room_emit"
            /\ log' = log

\* a join_room that has entered the room emits user_joined to the room, then
\* reads the pins of the room, then emits what it read as pins_update to its
\* own sid and to no other, and no other way
JoinStepsInOrder ==
    \A t \in Tasks :
        /\ (task[t].pc = "join_room_emit" /\ task'[t] # task[t]) =>
              /\ task'[t] = [task[t] EXCEPT !.pc = "join_room_find"]
              /\ Len(Emitted) = 1
              /\ Emitted[1].event = "user_joined"
              /\ Emitted[1].room = task[t].room
              /\ Emitted[1].to = sio_rooms[task[t].room]
              /\ sio_rooms' = sio_rooms
        /\ (task[t].pc = "join_room_find" /\ task'[t] # task[t]) =>
              /\ task'[t] = [task[t] EXCEPT !.pc = "join_room_send",
                                            !.docs = find_pins_in_room(task[t].room)]
              /\ log' = log
        /\ (task[t].pc = "join_room_send" /\ task'[t] # task[t]) =>
              /\ task'[t].pc = "idle"
              /\ Len(Emitted) = 1
              /\ Emitted[1].event = "pins_update"
              /\ Emitted[1].room = task[t].sid
              /\ Emitted[1].data = task[t].docs
              /\ Emitted[1].to \subseteq {task[t].sid}
              /\ task[t].sid \in connected => Emitted[1].to = {task[t].sid}
        /\ (task'[t].pc = "join_room_find" /\ task'[t] # task[t]) =>
              task[t].pc = "join_room_emit"
        /\ (task'[t].pc = "join_room_send" /\ task'[t] # task[t]) =>
              task[t].pc = "join_room_find"

\* a pins_update is emitted only by the last step of a join_room
PinsUpdateByJoinOnly ==
    \A i \in 1..Len(Emitted) :
        Emitted[i].event = "pins_update" =>
            \E t \in Tasks : task[t].pc = "join_room_send" /\ task'[t].pc = "idle"

\* the joining sid is delivered the user_joined of its own join_room if it has
\* not since asked to leave the room, or disconnected
JoinerReceivesIfStillJoined ==
    \A t \in Tasks :
        (/\ task[t].pc = "join_room_emit" /\ task'[t] # task[t]
         /\ task[t].room \in intent[task[t].sid]) =>
            task[t].sid \in Emitted[1].to

\* C17: join_room enters the session in the room, then emits user_joined to
\* the room, which the joining session receives with the others in the room
\* (it is in the room by then, unless it has left or disconnected since), then
\* emits pins_update to the joining session alone, with the pins db.pins held
\* for the room when they were read.
C17_JoinOrder ==
    [][/\ JoinEntersFirst
       /\ JoinStepsInOrder
       /\ PinsUpdateByJoinOnly
       /\ JoinerReceivesIfStillJoined]_vars

\* C17's case: with a pin in the room and two sessions connected, one joined:
\* it received its user_joined and then, alone, a pins_update with the pin.
C17_Witness ==
    /\ connected = {"s1", "s2"}
    /\ \E s \in connected, r \in RoomNames : \E i, j \in 1..Len(log) :
          /\ i < j
          /\ log[i].event = "user_joined" /\ log[i].room = r /\ s \in log[i].to
          /\ log[j].event = "pins_update" /\ log[j].room = s /\ log[j].to = {s}
          /\ log[j].data # <<>>
          /\ log[j].data = find_pins_in_room(r)

\* the first step of leave_room takes the sid out of the room, which changes
\* nothing if the sid is not in it, and emits nothing
LeaveRemovesFirst ==
    \A t \in Tasks, s \in Sids, r \in RoomNames, n \in UserNames :
        leave_room(t, s, r, n) =>
            /\ sio_rooms'[r] = sio_rooms[r] \ {s}
            /\ \A q \in RoomNames \ {r} : sio_rooms'[q] = sio_rooms[q]
            /\ s \notin sio_rooms[r] => sio_rooms' = sio_rooms
            /\ connected' = connected
            /\ task'[t].pc = "leave_room_emit"
            /\ log' = log

\* the second and last step of leave_room emits user_left to the room, to the
\* sids in it then
LeaveEmitsLast ==
    \A t \in Tasks :
        /\ (task[t].pc = "leave_room_emit" /\ task'[t] # task[t]) =>
              /\ task'[t].pc = "idle"
              /\ Len(Emitted) = 1
              /\ Emitted[1].event = "user_left"
              /\ Emitted[1].room = task[t].room
              /\ Emitted[1].to = sio_rooms[task[t].room]
              /\ sio_rooms' = sio_rooms
        /\ (task'[t].pc = "leave_room_emit" /\ task'[t] # task[t]) =>
              task[t].pc = "idle"

\* join_room by a sid that is in the room leaves the registry as it is
JoinAgainKeepsRegistry ==
    \A t \in Tasks, s \in Sids, r \in RoomNames, n \in UserNames :
        (join_room(t, s, r, n) /\ s \in sio_rooms[r]) => sio_rooms' = sio_rooms

\* the leaving sid is not delivered the user_left of its own leave_room unless
\* it has since asked to join the room again
LeaverNotDeliveredUnlessBack ==
    \A t \in Tasks :
        (/\ task[t].pc = "leave_room_emit" /\ task'[t] # task[t]
         /\ task[t].room \notin intent[task[t].sid]) =>
            task[t].sid \notin Emitted[1].to

\* C18: leave_room takes the session out of the room and then emits user_left
\* to the room, so that the sessions in the room are delivered it and the
\* leaving session is not (it is out of the room by then, unless it has joined
\* again since); leaving a room the session is not in, and joining one it is
\* in, leave the registry unchanged.
C18_LeaveOrder ==
    [][/\ LeaveRemovesFirst
       /\ LeaveEmitsLast
       /\ JoinAgainKeepsRegistry
       /\ LeaverNotDeliveredUnlessBack]_vars

\* C18's case: of two sessions in a room one left it, and the other alone was
\* delivered the user_left; the one that left then left a room it was never
\* in, which changed no room and emitted a user_left to the session in it.
C18_Witness ==
    /\ calls = 2
    /\ AllIdle
    /\ intent["s1"] = {}
    /\ sio_rooms["r1"] = {"s2"} /\ sio_rooms["r2"] = {"s2"}
    /\ Len(log) = 2
    /\ log[1] = [event |-> "user_left", room |-> "r1",
                 data |-> <<[user_name |-> "Anonymous"]>>, to |-> {"s2"}]
    /\ log[2] = [event |-> "user_left", room |-> "r2",
                 data |-> <<[user_name |-> "Anonymous"]>>, to |-> {"s2"}]

\* a relay event changes no collection, no Socket.IO room and no task: it
\* emits its payload as it is, once, to the room_id of the payload
RelayOnlyEmits ==
    \A t \in Tasks, s \in Sids, d \in ClientData :
        \A ev \in {"pin_added", "pin_modified", "pin_removed"} :
            (\/ ev = "pin_added" /\ pin_created(t, s, d)
             \/ ev = "pin_modified" /\ pin_updated(t, s, d)
             \/ ev = "pin_removed" /\ pin_deleted(t, s, d)) =>
                /\ db_rooms' = db_rooms /\ db_pins' = db_pins /\ db_users' = db_users
                /\ sio_rooms' = sio_rooms /\ connected' = connected
                /\ task' = task
                /\ Emitted = <<[event |-> ev, room |-> d.room_id, data |-> <<d>>,
                                to |-> sio_rooms[d.room_id]]>>

\* the ids db.pins holds
PersistedIds == {db_pins[i].id : i \in 1..Len(db_pins)}

\* the ids a document list shows
IdsIn(docs) == {docs[i].id : i \in 1..Len(docs)}

\* a pin announced by pin_added through pin_created alone (no create_pin runs
\* here) is not in db.pins, in no pins_update and in no get_room_pins result
AnnouncedOnlyNotShown ==
    \A i \in 1..Len(log) :
        log[i].event = "pin_added" =>
            /\ log[i].data[1].id \notin PersistedIds
            /\ \A j \in 1..Len(log) :
                  log[j].event = "pins_update" => log[i].data[1].id \notin IdsIn(log[j].data)
            /\ \A t \in Tasks :
                  resp[t].op = "get_room_pins" => log[i].data[1].id \notin IdsIn(resp[t].body)

\* C19: pin_created, pin_updated and pin_deleted change no room, pin, user or
\* Socket.IO room; each emits the payload it received, as it is, as pin_added,
\* pin_modified and pin_removed, to the room_id of the payload; so a pin that
\* was only announced through pin_created is in no later pins_update and in no
\* get_room_pins result.
C19_RelayOnly ==
    /\ []AnnouncedOnlyNotShown
    /\ [][RelayOnlyEmits]_vars

\* C19's case: a pin that db.pins does not hold was announced to the two
\* sessions of a room; a pins_update sent later, and a get_room_pins result,
\* show the pin the room has, and not the announced one.
C19_Witness ==
    /\ \E i, j \in 1..Len(log) :
          /\ i < j
          /\ log[i].event = "pin_added"
          /\ log[i].data[1].id \notin PersistedIds
          /\ log[i].to = {"s1", "s2"}
          /\ log[j].event = "pins_update"
          /\ log[j].data # <<>>
          /\ log[j].data = find_pins_in_room(log[i].room)
          /\ log[j].to # {}
    /\ \E t \in Tasks :
          /\ resp[t].op = "get_room_pins"
          /\ resp[t].body = find_pins_in_room("r1")
          /\ resp[t].body # <<>>

\* C20: once pin_removed has been emitted for a pin, db.pins does not hold the
\* pin, and no pins_update emitted afterwards shows it; get_room_pins, which
\* returns what db.pins holds, does not return it either.
C20_RemovedPinGone ==
    \A i \in 1..Len(log) :
        log[i].event = "pin_removed" =>
            /\ log[i].data[1].id \notin PersistedIds
            /\ log[i].data[1].id \notin IdsIn(find_pins_in_room(log[i].room))
            /\ \A j \in (i + 1)..Len(log) :
                  log[j].event = "pins_update" => log[i].data[1].id \notin IdsIn(log[j].data)

\* C21: no user appears twice in the members of a room of db.rooms, in every
\* reachable state, join_room_api calls for one room and user overlapping
\* included.
C21_MemberOnce ==
    \A i \in 1..Len(db_rooms) : NoDup(db_rooms[i].members)

\* the steps of the join_room and leave_room events, and disconnect, change no
\* document of db.rooms, whether db.rooms holds the room named or not
LiveLeavesMembers ==
    /\ \A t \in Tasks, s \in Sids, r \in RoomNames, n \in UserNames :
          (join_room(t, s, r, n) \/ leave_room(t, s, r, n)) => db_rooms' = db_rooms
    /\ \A s \in Sids : disconnect(s) => db_rooms' = db_rooms
    /\ \A t \in Tasks :
          (/\ task[t].pc \in {"join_room_emit", "join_room_find", "join_room_send",
                              "leave_room_emit"}
           /\ task'[t] # task[t]) => db_rooms' = db_rooms

\* join_room and leave_room act on the registry alone: a sid enters a room
\* that db.rooms does not hold as it enters one that it holds
LiveNeedsNoRoom ==
    \A t \in Tasks, s \in Sids, r \in RoomNames, n \in UserNames :
        /\ join_room(t, s, r, n) => s \in sio_rooms'[r]
        /\ leave_room(t, s, r, n) => s \notin sio_rooms'[r]

\* the steps of create_room and join_room_api change no Socket.IO room and no
\* connection, and emit nothing
RestLeavesRegistry ==
    /\ \A t \in Tasks, u \in Users :
          create_room(t, u) =>
              sio_rooms' = sio_rooms /\ connected' = connected /\ log' = log
    /\ \A t \in Tasks, r \in RoomNames, u \in Users :
          join_room_api(t, r, u) =>
              sio_rooms' = sio_rooms /\ connected' = connected /\ log' = log
    /\ \A t \in Tasks :
          (task[t].pc = "join_update" /\ task'[t] # task[t]) =>
              sio_rooms' = sio_rooms /\ connected' = connected /\ log' = log

\* no step changes db.rooms and the registry together
NeverBoth == db_rooms' = db_rooms \/ sio_rooms' = sio_rooms

\* C22: the registry and the members of the rooms are independent: join_room,
\* leave_room and disconnect change the members of no room, and act whether
\* db.rooms holds the room or not; create_room and join_room_api change no
\* session's rooms.
C22_LiveDurableIndependent ==
    [][LiveLeavesMembers /\ LiveNeedsNoRoom /\ RestLeavesRegistry /\ NeverBoth]_vars

\* C22's case: a user joined a room through REST and no session is in that
\* room; a session joined, live, a room that db.rooms does not hold.
C22_Witness ==
    /\ Len(db_rooms) = 1
    /\ Len(db_rooms[1].members) = 2
    /\ sio_rooms[db_rooms[1].id] = {}
    /\ \E r \in RoomNames :
          /\ FindOne(db_rooms, r) = <<>>
          /\ sio_rooms[r] # {}

====
